---- MODULE Spec2Model ----
(***************************************************************************)
(* The three order-submitting tools of crypt_agent/tools/custom_tool.py:   *)
(* advanced_sliced_executor, place_market_order and                        *)
(* execute_multiple_orders, run one call at a time against the exchange    *)
(* session (session.get_instruments_info, session.place_order).            *)
(*                                                                         *)
(* Quantities are Python floats.  A float is modelled as a binary          *)
(* floating-point number with MantissaBits significant bits, rounded to    *)
(* nearest, ties to even, and written as an integer count of 2^-FracBits.  *)
(* Python's format has 53 significant bits; the arithmetic below is the    *)
(* same arithmetic at a precision TLC can enumerate.                       *)
(***************************************************************************)
EXTENDS Integers, Sequences, FiniteSets

\* ---------------------------------------------------------------- bounds
MantissaBits == 5       \* significant bits of a float
MaxTotalWhole == 2      \* total_qty ranges over 0.0 .. MaxTotalWhole.9
MaxOrderWhole == 1      \* maxOrderQty ranges over 0.1 .. MaxOrderWhole.9
MaxTotalUnits == 25     \* and total_qty over 1.0, 2.0 .. MaxTotalUnits.0
MaxOrderUnits == 10     \* and maxOrderQty over 1.0, 2.0 .. MaxOrderUnits.0
MaxMinTenth == 2        \* minOrderQty ranges over 0.1 .. 0.MaxMinTenth, and 1.0
MaxSlices == 6          \* calls enumerated need at most this many slices
MaxOrders == 3          \* longest list given to execute_multiple_orders

FracBits == MantissaBits + 3
Unit == 2 ^ FracBits    \* the float 1.0

Symbols == {"BTCUSDT", "DOGEUSDT"}
Sides == {"Buy", "Sell"}
Statuses == {"Trading", "Closed"}
Errors == {"ConnectionError", "InvalidRequestError"}
TpPrices == {"70000.50"}
SlPrices == {"65000.00"}
Categories == {"linear", "spot"}
OrderQtyStrings == {"0.5", "1"}

\* ------------------------------------------------------------ arithmetic
Min(a, b) == IF a <= b THEN a ELSE b

Ceil(a, b) == (a + b - 1) \div b

\* The binary exponent at which N/D has at most MantissaBits significant bits.
RECURSIVE Exponent(_, _, _)
Exponent(N, D, k) ==
    IF N < D * 2 ^ (MantissaBits + k) THEN k ELSE Exponent(N, D, k + 1)

\* The float nearest to the rational N/D (N >= 0, D > 0), ties to even.
RoundToFloat(N, D) ==
    LET k == Exponent(N, D, 0)
        den == D * 2 ^ k
        q == N \div den
        r == N % den
    IN  IF 2 * r > den \/ (2 * r = den /\ q % 2 = 1)
        THEN (q + 1) * 2 ^ k
        ELSE q * 2 ^ k

\* A decimal string "w.t" as the exchange and the caller write quantities.
Decimal(w, t) == [whole |-> w, tenth |-> t]

\* float("w.t")
ParseQty(s) == RoundToFloat((10 * s.whole + s.tenth) * Unit, 10)

\* a - b on floats (a >= b)
FloatSub(a, b) == RoundToFloat(a - b, 1)

\* ------------------------------------------------------------ the inputs
TotalQtys ==
    {ParseQty(Decimal(w, t)) : w \in 0..MaxTotalWhole, t \in 0..9}
    \cup {ParseQty(Decimal(w, 0)) : w \in 1..MaxTotalUnits}

MaxOrderQtyStrings ==
    ({Decimal(w, t) : w \in 0..MaxOrderWhole, t \in 0..9} \ {Decimal(0, 0)})
    \cup {Decimal(w, 0) : w \in 1..MaxOrderUnits}

MinOrderQtyStrings ==
    {Decimal(0, t) : t \in 1..MaxMinTenth} \cup {Decimal(1, 0)}

\* One entry of instrument['result']['list'].
InstrumentInfos ==
    [status : Statuses,
     maxOrderQty : MaxOrderQtyStrings,
     minOrderQty : MinOrderQtyStrings]

\* What session.get_instruments_info does: raises, or returns a list that is
\* empty (no such symbol) or holds the instrument.
LookupRaised(e) == [kind |-> "raise", error |-> e, list |-> <<>>]
LookupReturned(l) == [kind |-> "ok", error |-> "", list |-> l]
NoLookup == [kind |-> "none", error |-> "", list |-> <<>>]

LookupResponses ==
    {LookupRaised(e) : e \in Errors}
    \cup {LookupReturned(<<>>)}
    \cup {LookupReturned(<<i>>) : i \in InstrumentInfos}

\* One call of session.place_order, as the exchange sees it.
Submission(cat, sym, sd, q, tp, sl, id, e) ==
    [category |-> cat, symbol |-> sym, side |-> sd, qty |-> q,
     takeProfit |-> tp, stopLoss |-> sl,
     ok |-> (e = ""), orderId |-> id, error |-> e]

\* An order object given to execute_multiple_orders.
OrderDicts == [symbol : Symbols, side : Sides, quantity : {"1"}]

RECURSIVE SeqsUpTo(_, _)
SeqsUpTo(S, n) ==
    IF n = 0 THEN {<<>>}
    ELSE LET shorter == SeqsUpTo(S, n - 1)
         IN  shorter \cup {Append(q, x) : q \in shorter, x \in S}

\* "\n".join(lines)
NL == [tag |-> "\n"]

RECURSIVE JoinLines(_)
JoinLines(lines) ==
    IF Len(lines) = 0 THEN <<>>
    ELSE IF Len(lines) = 1 THEN lines
    ELSE <<Head(lines), NL>> \o JoinLines(Tail(lines))

\* The pieces of the joined text that are not separators.
Entries(text) == SelectSeq(text, LAMBDA x : x # NL)

\* A tool's return value: which message, and what it interpolates.
Ret(kind, slices, text, error) ==
    [kind |-> kind, slices |-> slices, text |-> text, error |-> error]
NoRet == Ret("none", 0, <<>>, "")

VARIABLES
    op,               \* the tool running: "idle", "sliced", "single", "batch"
    pc,               \* where it is: "fetch", "loop", "place", "done"
    symbol, side,     \* arguments
    total_qty,        \* advanced_sliced_executor's total_qty (a float)
    qty,              \* place_market_order's qty (a string, passed through)
    tp_price, sl_price, category,
    orders,           \* execute_multiple_orders' orders
    idx,              \* how many of them the for loop has taken
    instrument,       \* the response of session.get_instruments_info
    max_order_qty, min_order_qty,
    remaining_qty,
    orders_executed,
    results,          \* execute_multiple_orders' results
    placed,           \* the calls of session.place_order made by this call
    lookups,          \* the calls of session.get_instruments_info made by it
    ret               \* the value returned

vars == <<op, pc, symbol, side, total_qty, qty, tp_price, sl_price, category,
          orders, idx,
          instrument, max_order_qty, min_order_qty, remaining_qty,
          orders_executed, results, placed, lookups, ret>>

\* The exchange's next order id.
NextOrderId == Cardinality({i \in 1..Len(placed) : placed[i].ok}) + 1

Init ==
    /\ op = "idle" /\ pc = "idle"
    /\ symbol = "" /\ side = "" /\ total_qty = 0 /\ qty = ""
    /\ tp_price = "" /\ sl_price = "" /\ category = ""
    /\ orders = <<>> /\ idx = 0
    /\ instrument = NoLookup
    /\ max_order_qty = 0 /\ min_order_qty = 0 /\ remaining_qty = 0
    /\ orders_executed = <<>> /\ results = <<>>
    /\ placed = <<>> /\ lookups = 0
    /\ ret = NoRet

\* ------------------------------------------- advanced_sliced_executor
CallSliced ==
    /\ op = "idle"
    /\ \E sym \in Symbols, sd \in Sides, t \in TotalQtys,
          tp \in TpPrices, sl \in SlPrices :
        /\ symbol' = sym /\ side' = sd /\ total_qty' = t
        /\ tp_price' = tp /\ sl_price' = sl
    /\ op' = "sliced" /\ pc' = "fetch"
    /\ UNCHANGED <<qty, category, orders, idx, instrument, max_order_qty,
                   min_order_qty, remaining_qty, orders_executed, results,
                   placed, lookups, ret>>

ListNeverEmpty(l) == FALSE

\* if not instrument['result']['list']
ListIsEmpty(l) == Len(l) = 0

QuantityTooSmallInverted(total, minimum) == total > minimum

\* if total_qty < min_order_qty
QuantityTooSmall(total, minimum) == total < minimum

\* The calls enumerated: those that need at most MaxSlices slices.
WithinSlices(total, resp) ==
    IF resp.kind # "ok" \/ Len(resp.list) = 0
    THEN TRUE
    ELSE total <= MaxSlices * ParseQty(resp.list[1].maxOrderQty)

SlicedFetchInstrument ==
    /\ op = "sliced" /\ pc = "fetch"
    /\ \E resp \in LookupResponses :
        /\ WithinSlices(total_qty, resp)
        /\ instrument' = resp
        /\ lookups' = lookups + 1
        /\ IF resp.kind = "raise"
           THEN /\ ret' = Ret("CRITICAL FAILURE", 0, <<>>, resp.error)
                /\ pc' = "done"
                /\ UNCHANGED <<max_order_qty, min_order_qty, remaining_qty>>
           ELSE IF ListIsEmpty(resp.list)
           THEN /\ ret' = Ret("Error: not found", 0, <<>>, "")
                /\ pc' = "done"
                /\ UNCHANGED <<max_order_qty, min_order_qty, remaining_qty>>
           ELSE IF Len(resp.list) = 0
           THEN \* instrument['result']['list'][0] of an empty list
                /\ ret' = Ret("CRITICAL FAILURE", 0, <<>>, "IndexError")
                /\ pc' = "done"
                /\ UNCHANGED <<max_order_qty, min_order_qty, remaining_qty>>
           ELSE LET lot_filter == resp.list[1]
                    mx == ParseQty(lot_filter.maxOrderQty)
                    mn == ParseQty(lot_filter.minOrderQty)
                IN  /\ max_order_qty' = mx
                    /\ min_order_qty' = mn
                    /\ IF QuantityTooSmall(total_qty, mn)
                       THEN /\ ret' = Ret("Failed: below the minimum", 0, <<>>, "")
                            /\ pc' = "done"
                            /\ UNCHANGED remaining_qty
                       ELSE /\ remaining_qty' = total_qty
                            /\ pc' = "loop"
                            /\ UNCHANGED ret
    /\ orders_executed' = <<>>
    /\ UNCHANGED <<op, symbol, side, total_qty, qty, tp_price, sl_price,
                   category, orders, idx, results, placed>>

\* while remaining_qty > 0
LoopContinues(remaining) == remaining > 0

CurrentSliceQtyUnsliced(remaining, maximum) == remaining

\* current_slice_qty = min(remaining_qty, max_order_qty)
CurrentSliceQty(remaining, maximum) == Min(remaining, maximum)

\* f"{current_slice_qty} units (ID: {order_id})"
SliceLine(q, id) == [tag |-> "slice", qty |-> q, orderId |-> id]

\* One pass of the loop body: the slice is submitted, and either recorded
\* and taken off remaining_qty, or the error leaves the loop for the
\* function's except clause.
SlicedPlaceOrder ==
    /\ op = "sliced" /\ pc = "loop"
    /\ LoopContinues(remaining_qty)
    /\ LET current_slice_qty == CurrentSliceQty(remaining_qty, max_order_qty)
       IN  \/ /\ placed' = Append(placed,
                      Submission("linear", symbol, side, current_slice_qty,
                                 tp_price, sl_price, NextOrderId, ""))
              /\ orders_executed' =
                      Append(orders_executed,
                             SliceLine(current_slice_qty, NextOrderId))
              /\ remaining_qty' = FloatSub(remaining_qty, current_slice_qty)
              /\ UNCHANGED <<pc, ret>>
           \/ \E e \in Errors :
              /\ placed' = Append(placed,
                      Submission("linear", symbol, side, current_slice_qty,
                                 tp_price, sl_price, 0, e))
              /\ ret' = Ret("CRITICAL FAILURE", 0, <<>>, e)
              /\ pc' = "done"
              /\ UNCHANGED <<orders_executed, remaining_qty>>
    /\ UNCHANGED <<op, symbol, side, total_qty, qty, tp_price, sl_price,
                   category, orders, idx, instrument, max_order_qty,
                   min_order_qty, results, lookups>>

SlicedReturn ==
    /\ op = "sliced" /\ pc = "loop"
    /\ ~LoopContinues(remaining_qty)
    /\ ret' = Ret("SUCCESS", Len(orders_executed), JoinLines(orders_executed), "")
    /\ pc' = "done"
    /\ UNCHANGED <<op, symbol, side, total_qty, qty, tp_price, sl_price,
                   category, orders, idx, instrument, max_order_qty,
                   min_order_qty, remaining_qty, orders_executed, results,
                   placed, lookups>>

\* ------------------------------------------------- place_market_order
CallSingle ==
    /\ op = "idle"
    /\ \E sym \in Symbols, sd \in Sides, q \in OrderQtyStrings,
          tp \in TpPrices, sl \in SlPrices, cat \in Categories :
        /\ symbol' = sym /\ side' = sd /\ qty' = q
        /\ tp_price' = tp /\ sl_price' = sl /\ category' = cat
    /\ op' = "single" /\ pc' = "fetch"
    /\ UNCHANGED <<total_qty, orders, idx, instrument, max_order_qty,
                   min_order_qty, remaining_qty, orders_executed, results,
                   placed, lookups, ret>>

NotTradableInverted(status) == status = "Trading"

\* if instrument_info['status'] != "Trading"
NotTradable(status) == status # "Trading"

SingleFetchInstrument ==
    /\ op = "single" /\ pc = "fetch"
    /\ \E resp \in LookupResponses :
        /\ instrument' = resp
        /\ lookups' = lookups + 1
        /\ IF resp.kind = "raise"
           THEN /\ ret' = Ret("Trade failed", 0, <<>>, resp.error)
                /\ pc' = "done"
           ELSE IF ListIsEmpty(resp.list)
           THEN /\ ret' = Ret("Error: not a valid symbol", 0, <<>>, "")
                /\ pc' = "done"
           ELSE IF Len(resp.list) = 0
           THEN \* instruments['result']['list'][0] of an empty list
                /\ ret' = Ret("Trade failed", 0, <<>>, "IndexError")
                /\ pc' = "done"
           ELSE IF NotTradable(resp.list[1].status)
           THEN /\ ret' = Ret("Error: exists but is currently",
                              0, <<>>, resp.list[1].status)
                /\ pc' = "done"
           ELSE /\ pc' = "place"
                /\ UNCHANGED ret
    /\ UNCHANGED <<op, symbol, side, total_qty, qty, tp_price, sl_price,
                   category, orders, idx, max_order_qty, min_order_qty,
                   remaining_qty, orders_executed, results, placed>>

\* f"Success! {side} {qty} {symbol}. Order ID: {orderId}"
SuccessLine(sd, q, sym, id) ==
    [tag |-> "Success!", side |-> sd, qty |-> q, symbol |-> sym,
     orderId |-> id]

SinglePlaceOrder ==
    /\ op = "single" /\ pc = "place"
    /\ \/ /\ placed' = Append(placed,
                  Submission(category, symbol, side, qty, tp_price, sl_price,
                             NextOrderId, ""))
          /\ ret' = Ret("Success!", 0,
                        <<SuccessLine(side, qty, symbol, NextOrderId)>>, "")
       \/ \E e \in Errors :
          /\ placed' = Append(placed,
                  Submission(category, symbol, side, qty, tp_price, sl_price,
                             0, e))
          /\ ret' = Ret("Trade failed", 0, <<>>, e)
    /\ pc' = "done"
    /\ UNCHANGED <<op, symbol, side, total_qty, qty, tp_price, sl_price,
                   category, orders, idx, instrument, max_order_qty,
                   min_order_qty, remaining_qty, orders_executed, results,
                   lookups>>

\* --------------------------------------------- execute_multiple_orders
CallBatch ==
    /\ op = "idle"
    /\ \E os \in SeqsUpTo(OrderDicts, MaxOrders) : orders' = os
    /\ results' = <<>>
    /\ idx' = 0
    /\ op' = "batch" /\ pc' = "loop"
    /\ UNCHANGED <<symbol, side, total_qty, qty, tp_price, sl_price,
                   category, instrument, max_order_qty, min_order_qty,
                   remaining_qty, orders_executed, placed, lookups, ret>>

\* f"Success: {order['symbol']} OrderID: {orderId}"
BatchSuccessLine(sym, id) ==
    [tag |-> "Success:", symbol |-> sym, orderId |-> id, error |-> ""]

\* f"Failed: {order['symbol']} Error: {str(e)}"
BatchFailedLine(sym, e) ==
    [tag |-> "Failed:", symbol |-> sym, orderId |-> 0, error |-> e]

BatchOnErrorDropped(rs, sym, e) == rs

\* except Exception as e: results.append(...)
BatchOnError(rs, sym, e) == Append(rs, BatchFailedLine(sym, e))

\* One pass of the for loop.
BatchPlaceOrder ==
    /\ op = "batch" /\ pc = "loop"
    /\ idx < Len(orders)
    /\ LET order == orders[idx + 1]
       IN  \/ /\ placed' = Append(placed,
                      Submission("linear", order.symbol, order.side,
                                 order.quantity, "", "", NextOrderId, ""))
              /\ results' = Append(results,
                      BatchSuccessLine(order.symbol, NextOrderId))
           \/ \E e \in Errors :
              /\ placed' = Append(placed,
                      Submission("linear", order.symbol, order.side,
                                 order.quantity, "", "", 0, e))
              /\ results' = BatchOnError(results, order.symbol, e)
    /\ idx' = idx + 1
    /\ UNCHANGED <<op, pc, symbol, side, total_qty, qty, tp_price, sl_price,
                   category, orders, instrument, max_order_qty,
                   min_order_qty, remaining_qty, orders_executed, lookups,
                   ret>>

BatchReturn ==
    /\ op = "batch" /\ pc = "loop"
    /\ idx >= Len(orders)
    /\ ret' = Ret("report", 0, JoinLines(results), "")
    /\ pc' = "done"
    /\ UNCHANGED <<op, symbol, side, total_qty, qty, tp_price, sl_price,
                   category, orders, idx, instrument, max_order_qty,
                   min_order_qty, remaining_qty, orders_executed, results,
                   placed, lookups>>

\* The tool has returned; the agent may call the next one.
Return ==
    /\ pc = "done"
    /\ op' = "idle" /\ pc' = "idle"
    /\ symbol' = "" /\ side' = "" /\ total_qty' = 0 /\ qty' = ""
    /\ tp_price' = "" /\ sl_price' = "" /\ category' = ""
    /\ orders' = <<>> /\ idx' = 0
    /\ instrument' = NoLookup
    /\ max_order_qty' = 0 /\ min_order_qty' = 0 /\ remaining_qty' = 0
    /\ orders_executed' = <<>> /\ results' = <<>>
    /\ placed' = <<>> /\ lookups' = 0
    /\ ret' = NoRet

Next ==
    \/ CallSliced
    \/ SlicedFetchInstrument
    \/ SlicedPlaceOrder
    \/ SlicedReturn
    \/ CallSingle
    \/ SingleFetchInstrument
    \/ SinglePlaceOrder
    \/ CallBatch
    \/ BatchPlaceOrder
    \/ BatchReturn
    \/ Return

Spec == Init /\ [][Next]_vars

\* ------------------------------------------------------------ properties
Found == instrument.kind = "ok" /\ Len(instrument.list) > 0

\* The sliced executor has fetched an instrument and total_qty passed the
\* minimum check: it has begun slicing.
Slicing ==
    /\ op = "sliced"
    /\ pc \in {"loop", "done"}
    /\ Found
    /\ total_qty >= ParseQty(instrument.list[1].minOrderQty)

Returned == pc = "done"

RECURSIVE SumQty(_)
SumQty(subs) == IF Len(subs) = 0 THEN 0 ELSE Head(subs).qty + SumQty(Tail(subs))

PlacedQtys == [i \in 1..Len(placed) |-> placed[i].qty]

\* floor(total/max) slices of max, then the remainder when it is not zero.
ExpectedSlices(total, maximum) ==
    LET full == total \div maximum
        rest == total % maximum
    IN  [i \in 1..(full + (IF rest > 0 THEN 1 ELSE 0)) |->
            IF i <= full THEN maximum ELSE rest]

IsWhole(x) == x % Unit = 0

\* The passes the loop makes over total when no submission raises.
RECURSIVE SlicesNeeded(_, _)
SlicesNeeded(remaining, maximum) ==
    IF ~(remaining > 0) THEN 0
    ELSE 1 + SlicesNeeded(FloatSub(remaining, Min(remaining, maximum)), maximum)

\* The entries of a returned report; a lone failure message counts as one.
ReportEntries ==
    Len(Entries(ret.text)) + (IF ret.error # "" THEN 1 ELSE 0)

\* C1: when a sliced call that passed validation returns, every one of the n
\* slices it needs has been attempted, whichever submissions raised, and the
\* report has n entries.
C1_FailedSliceDoesNotAbort ==
    (Slicing /\ Returned) =>
        /\ Len(placed) = SlicesNeeded(total_qty, max_order_qty)
        /\ ReportEntries = SlicesNeeded(total_qty, max_order_qty)

\* C2: when a sliced call with total_qty >= min_order_qty returns, the
\* quantities of the submissions it made sum to total_qty exactly.
C2_Conservation ==
    (Slicing /\ Returned) => SumQty(placed) = total_qty

\* C3: every quantity the sliced executor passes to session.place_order is
\* > 0 and <= the fetched instrument's maxOrderQty.
C3_SliceBound ==
    op = "sliced" =>
        \A i \in 1..Len(placed) :
            /\ placed[i].qty > 0
            /\ Found
            /\ placed[i].qty <= ParseQty(instrument.list[1].maxOrderQty)

\* total_qty 25 against maxOrderQty "10.0": slices of 10, 10 and 5.
C3_Witness ==
    /\ op = "sliced"
    /\ total_qty = 25 * Unit
    /\ Found
    /\ instrument.list[1].maxOrderQty = Decimal(10, 0)
    /\ Len(placed) = 3
    /\ placed[1].qty = 10 * Unit
    /\ placed[2].qty = 10 * Unit
    /\ placed[3].qty = 5 * Unit
    /\ remaining_qty = 0

\* C4: when every submission of a sliced call succeeded, the submissions are
\* ceil(total/max) in number.  (The claim also gives each slice's quantity;
\* the count alone is stated here, and the whole sequence below.)
C4_SliceSequence ==
    (Slicing /\ Returned /\ ret.kind = "SUCCESS") =>
        Len(placed) = Ceil(total_qty, max_order_qty)

\* The slice sequence of C4 for quantities the float subtraction keeps exact,
\* whole numbers (25 against 10 gives 10, 10, 5; 10 against 10 gives 10).
SliceSequenceOfWholeQuantities ==
    (Slicing /\ Returned /\ ret.kind = "SUCCESS"
        /\ IsWhole(total_qty) /\ IsWhole(max_order_qty)) =>
        /\ PlacedQtys = ExpectedSlices(total_qty, max_order_qty)
        /\ Len(placed) = Ceil(total_qty, max_order_qty)

\* C5: a sliced call whose total_qty is below the fetched minOrderQty returns
\* the below-the-minimum failure and submits nothing.
C5_MinimumEnforced ==
    (op = "sliced" /\ Found
        /\ total_qty < ParseQty(instrument.list[1].minOrderQty)) =>
        /\ pc = "done"
        /\ ret = Ret("Failed: below the minimum", 0, <<>>, "")
        /\ placed = <<>>

\* A positive total below the minimum was refused.
C5_Witness ==
    /\ op = "sliced" /\ pc = "done" /\ Found
    /\ total_qty > 0
    /\ total_qty < min_order_qty
    /\ ret.kind = "Failed: below the minimum"

\* C6: when the lookup returns an empty list the sliced executor returns the
\* not-found error at once, and when the lookup raises it returns one
\* failure message; in both cases nothing is submitted.
C6_UnknownSymbol ==
    /\ (op = "sliced" /\ instrument.kind = "ok" /\ instrument.list = <<>>) =>
            /\ pc = "done"
            /\ ret = Ret("Error: not found", 0, <<>>, "")
            /\ placed = <<>>
    /\ (op = "sliced" /\ instrument.kind = "raise") =>
            /\ pc = "done"
            /\ ret = Ret("CRITICAL FAILURE", 0, <<>>, instrument.error)
            /\ placed = <<>>

\* The lookup found no instrument and the call has returned.
C6_Witness ==
    /\ op = "sliced" /\ pc = "done"
    /\ instrument = LookupReturned(<<>>)
    /\ lookups = 1
    /\ ret.kind = "Error: not found"

\* C7: once slicing has begun the call returns a report that keeps the
\* outcome of every slice submitted: the order id of each successful slice is
\* in the returned report even when another slice failed.
C7_OutcomesRetained ==
    (Slicing /\ Returned) =>
        \A i \in 1..Len(placed) : placed[i].ok =>
            \E j \in 1..Len(ret.text) :
                /\ ret.text[j] # NL
                /\ ret.text[j].orderId = placed[i].orderId

\* C8: for whole total_qty and max_order_qty the loop ends after exactly
\* ceil(total/max) passes.
C8_Termination ==
    (Slicing /\ Returned /\ IsWhole(total_qty) /\ IsWhole(max_order_qty)) =>
        Len(placed) = Ceil(total_qty, max_order_qty)

\* C9: for an instrument that exists and is not "Trading", place_market_order
\* returns an error and submits nothing (and never submits more than once),
\* while the sliced executor submits slices for it.
C9_ValidationAsymmetry ==
    /\ (op = "single" /\ Found /\ instrument.list[1].status # "Trading") =>
            /\ pc = "done"
            /\ ret.kind = "Error: exists but is currently"
            /\ placed = <<>>
    /\ op = "single" => Len(placed) <= 1
    /\ (Slicing /\ Returned /\ instrument.list[1].status # "Trading") =>
            /\ Len(placed) >= 1
            /\ ret.kind \in {"SUCCESS", "CRITICAL FAILURE"}
            /\ \A i \in 1..Len(placed) : placed[i].symbol = symbol

\* The sliced executor executed an order in full on a closed instrument.
C9_Witness ==
    /\ Slicing /\ Returned
    /\ instrument.list[1].status = "Closed"
    /\ ret.kind = "SUCCESS"
    /\ Len(placed) >= 2
    /\ \A i \in 1..Len(placed) : placed[i].ok

\* C10: execute_multiple_orders makes no instrument lookup, submits the
\* orders one by one in list order whatever the earlier outcomes, and returns
\* one newline-joined entry per order, Success or Failed as that order went.
C10_BatchReport ==
    op = "batch" =>
        /\ lookups = 0
        /\ Len(placed) = idx
        /\ Len(results) = idx
        /\ \A i \in 1..Len(placed) :
            /\ i <= Len(orders)
            /\ placed[i].symbol = orders[i].symbol
            /\ placed[i].side = orders[i].side
            /\ placed[i].qty = orders[i].quantity
            /\ i <= Len(results)
            /\ results[i].symbol = orders[i].symbol
            /\ results[i].tag = (IF placed[i].ok THEN "Success:" ELSE "Failed:")
        /\ pc = "done" =>
            /\ Len(placed) = Len(orders)
            /\ Entries(ret.text) = results
            /\ Len(Entries(ret.text)) = Len(orders)
            /\ Len(ret.text) = (IF Len(orders) = 0 THEN 0 ELSE 2 * Len(orders) - 1)

\* Three orders, the second refused: Success, Failed, Success.
C10_Witness ==
    /\ op = "batch" /\ pc = "done"
    /\ Len(orders) = 3
    /\ placed[1].ok /\ ~placed[2].ok /\ placed[3].ok
    /\ Len(Entries(ret.text)) = 3

====
